---------------------------- MODULE Spec2Model ----------------------------
(***************************************************************************)
(* LockFreeQueue<T> of src/src/main.rs: a linked queue with a sentinel,    *)
(* two atomic pointers (head, tail) and one atomic next pointer per node.  *)
(*                                                                         *)
(* Every access to a shared location (self.head, self.tail, a node's next  *)
(* field, the allocator) is one step of the calling thread, so the threads *)
(* interleave exactly at the atomic operations of the source.  The atomics *)
(* are modelled sequentially consistent.                                   *)
(*                                                                         *)
(* Memory.  A node lives at an address in 1..NumAddr; NULL is 0.           *)
(* Box::new takes any address that is not live (a fresh one or one freed   *)
(* before), Box::from_raw + drop gives the address back.  A pointer is an  *)
(* address with a sign: p > 0 points to the node it was obtained for, and  *)
(* p < 0 is a dangling pointer to address -p (the node it pointed to has   *)
(* been freed; the address may since hold another node).  Pointer          *)
(* comparison, and so CAS, sees the address only.  Reading through a       *)
(* pointer whose address is not live is undefined behaviour: the value     *)
(* read is any pointer (resp. any payload).                                *)
(***************************************************************************)
EXTENDS Integers, Sequences, FiniteSets, TLC

\* ------------------------------------------------------------- bounds
NumAddr    == 6   \* addresses of the heap
SeqOffers  == 2   \* single-threaded client: calls of offer
SeqTakes   == 4   \* single-threaded client: calls of take
SeqEmpties == 2   \* single-threaded client: calls of is_empty
ProdOffers == 2   \* concurrent clients: calls of offer of a producer
ConsTakes  == 2   \* concurrent clients: calls of take of a consumer

NULL    == 0
NONE    == -1     \* Option::None of take
Default == 0      \* Default::default() of the payload type (i32)

Threads == {1, 2, 3}
Addrs   == 1..NumAddr

VARIABLES
    head,      \* self.head
    tail,      \* self.tail
    next,      \* next[a]: the next field of the node at address a
    data,      \* data[a]: the data field of the node at address a
    live,      \* addresses that hold an allocated node
    brk,       \* highest address the allocator has handed out so far
    pc,        \* per thread: where it is in offer / take / is_empty
    l_head,    \* per thread: local `head` of take and is_empty
    l_tail,    \* per thread: local `tail` of offer
    l_next,    \* per thread: local `next`
    new_node,  \* per thread: local `new_node` of offer
    client,    \* per thread: the calls its program makes, by operation
    calls,     \* per thread: the calls it has started so far, by operation
    dropped,   \* Drop::drop has run
    \* history (not read by the program)
    serial,    \* no call has started while another one was in flight
    hist,      \* the calls completed so far, in order, while serial
    alone,     \* no take has been in flight together with another call
    last,      \* what the call that returned last returned
    taken,     \* [val, at]: payloads the takes returned, with cas_at
    ncas,      \* number of successful CASes on self.head so far
    cas_at,    \* per thread: ncas at its own successful CAS on self.head
    uaf,       \* accesses made through a pointer to a freed node
    nalloc,    \* nodes allocated so far (new and offer)
    nfree,     \* nodes freed so far by take
    dropinfo   \* what drop did: linked nodes it found, nodes it freed

vars == <<head, tail, next, data, live, brk, pc, l_head, l_tail, l_next,
          new_node, client, calls, dropped, serial, hist, alone, last, taken,
          ncas, cas_at, uaf, nalloc, nfree, dropinfo>>

shared == <<head, tail, next, data, live, brk>>
locals == <<l_head, l_tail, l_next, new_node>>
counts == <<ncas, cas_at, nalloc, nfree, dropinfo>>

\* ------------------------------------------------------------- pointers
AddrOf(p) == IF p < 0 THEN -p ELSE p

\* The pointee of p is a node that is allocated and is the one p was made for.
Valid(p) == p > 0 /\ p \in live

\* Pointer equality as the hardware sees it (`==` on *mut Node<T>, and CAS).
SamePtr(p, q) == AddrOf(p) = AddrOf(q)

\* A pointer value after the node at address a has been freed.
Stale(p, a) == IF p = a THEN -a ELSE p

\* What a read of a pointer from freed memory can give: null, or the address
\* of any block the allocator has handed out so far.
GarbagePtr == {NULL} \cup {-a : a \in 1..brk}


\* ------------------------------------------------------------- clients
\* The payload of the k-th offer of thread t: distinct from every other
\* offer's and from the sentinel's Default.
OfferValue(t, k) == 10 * t + k

Q(o, k, e) == [offer |-> o, take |-> k, is_empty |-> e]

\* The client programs: how many calls of each operation each thread makes.
\* A thread makes its calls one after the other, in any order.
SeqClient  == <<Q(SeqOffers, SeqTakes, SeqEmpties), Q(0, 0, 0), Q(0, 0, 0)>>
MPSCClient == <<Q(1, 0, 0), Q(ProdOffers, 0, 0), Q(0, ConsTakes, 0)>>
SPMCClient == <<Q(ProdOffers, 0, 0), Q(0, ConsTakes, 0), Q(0, ConsTakes, 0)>>
Clients    == {SeqClient, MPSCClient, SPMCClient}

\* ------------------------------------------------------------- new  (18..28)
Init ==
    /\ head = 1
    /\ tail = 1
    /\ next = [a \in Addrs |-> NULL]
    /\ data = [a \in Addrs |-> Default]
    /\ live = {1}
    /\ brk = 1
    /\ pc = [t \in Threads |-> "idle"]
    /\ l_head = [t \in Threads |-> NULL]
    /\ l_tail = [t \in Threads |-> NULL]
    /\ l_next = [t \in Threads |-> NULL]
    /\ new_node = [t \in Threads |-> NULL]
    /\ client \in Clients
    /\ calls = [t \in Threads |-> Q(0, 0, 0)]
    /\ dropped = FALSE
    /\ serial = TRUE
    /\ hist = <<>>
    /\ alone = TRUE
    /\ last = "nothing"
    /\ taken = {}
    /\ ncas = 0
    /\ cas_at = [t \in Threads |-> 0]
    /\ uaf = {}
    /\ nalloc = 1
    /\ nfree = 0
    /\ dropinfo = [linked |-> 0, freed |-> 0, bad |-> FALSE]

\* ------------------------------------------------------------- memory
\* Addresses Box::new may return: the next fresh one, or any freed one.
FreeAddrs == {a \in Addrs : a \notin live /\ a <= brk + 1}

\* What a read of a payload from freed memory can give: the sentinel's
\* payload, or the payload of any offer made so far.
GarbageData ==
    {Default} \cup UNION {{OfferValue(t, k) : k \in 1..calls[t].offer} : t \in Threads}

\* The values a load of (*p).next can return.
ReadNext(p) == IF AddrOf(p) \in live THEN {next[AddrOf(p)]} ELSE GarbagePtr

\* ReadData reading the payload of the node after p (the node the CAS on
\* head makes the new sentinel) instead of the payload of p's node.
ReadData_OfNext(p) ==
    IF AddrOf(p) \in live /\ next[AddrOf(p)] # NULL
                          /\ AddrOf(next[AddrOf(p)]) \in live
    THEN {data[AddrOf(next[AddrOf(p)])]}
    ELSE GarbageData

\* The values a read of (*p).data can return.
ReadData(p) == IF AddrOf(p) \in live THEN {data[AddrOf(p)]} ELSE GarbageData

\* The outcomes of compare_exchange(null, _) on (*p).next: TRUE for Ok.
CasNextOutcomes(p) ==
    IF AddrOf(p) \in live THEN {next[AddrOf(p)] = NULL} ELSE BOOLEAN

\* The access kinds recorded in uaf when p does not point to its node.
Access(p, kind) == IF Valid(p) THEN {} ELSE {kind}

StaleAll(f, a) == [x \in DOMAIN f |-> Stale(f[x], a)]

\* ------------------------------------------------------------- calls
InFlight(t) == pc[t] \notin {"idle", "panicked"}

InTake(t) ==
    pc[t] \in {"take_load_next", "take_cas", "take_free", "take_reload_head"}

OthersIdle(t) == \A u \in Threads \ {t} : ~InFlight(u)

\* A call of thread t may start.
CanCall(t, op) ==
    /\ ~dropped
    /\ pc[t] = "idle"
    /\ calls[t][op] < client[t][op]

\* Thread t starts a call of op.
Called(t, op) ==
    /\ calls' = [calls EXCEPT ![t][op] = @ + 1]
    /\ serial' = (serial /\ OthersIdle(t))
    /\ hist' = IF serial /\ OthersIdle(t) THEN hist ELSE <<>>
    /\ alone' = (alone /\ IF op = "take"
                          THEN OthersIdle(t)
                          ELSE \A u \in Threads \ {t} : ~InTake(u))

Goto(t, label) == pc' = [pc EXCEPT ![t] = label]

\* The call of thread t returns rec: t is back in its client, its locals dead.
Return(t, rec, what) ==
    /\ pc' = [pc EXCEPT ![t] = "idle"]
    /\ hist' = IF serial THEN Append(hist, rec) ELSE hist
    /\ last' = what
    /\ l_head' = [l_head EXCEPT ![t] = NULL]
    /\ l_tail' = [l_tail EXCEPT ![t] = NULL]
    /\ l_next' = [l_next EXCEPT ![t] = NULL]
    /\ new_node' = [new_node EXCEPT ![t] = NULL]

\* ------------------------------------------------------------- offer (30..57)
\* 31..34: let new_node = Box::into_raw(Box::new(Node { data, next: null }))
OfferAlloc(t) ==
    /\ CanCall(t, "offer")
    /\ Called(t, "offer")
    /\ \E a \in FreeAddrs :
         /\ live' = live \cup {a}
         /\ brk' = IF a > brk THEN a ELSE brk
         /\ next' = [next EXCEPT ![a] = NULL]
         /\ data' = [data EXCEPT ![a] = OfferValue(t, calls[t].offer + 1)]
         /\ new_node' = [new_node EXCEPT ![t] = a]
    /\ nalloc' = nalloc + 1
    /\ Goto(t, "offer_load_tail")
    /\ UNCHANGED <<head, tail, l_head, l_tail, l_next, client, dropped,
                   last, taken, ncas, cas_at, uaf, nfree, dropinfo>>

\* 35: let mut tail = self.tail.load()
OfferLoadTail(t) ==
    /\ pc[t] = "offer_load_tail"
    /\ l_tail' = [l_tail EXCEPT ![t] = tail]
    /\ Goto(t, "offer_load_next")
    /\ UNCHANGED <<shared, l_head, l_next, new_node, client, calls, dropped,
                   serial, hist, alone, last, taken, uaf, counts>>

\* 39..41, 50: next = (*tail).next.load(); if next.is_null() {..} else {..}
OfferLoadNext(t) ==
    /\ pc[t] = "offer_load_next"
    /\ \E v \in ReadNext(l_tail[t]) :
         /\ l_next' = [l_next EXCEPT ![t] = v]
         /\ Goto(t, IF v = NULL THEN "offer_cas_next" ELSE "offer_help_tail")
    /\ uaf' = uaf \cup Access(l_tail[t], "offer_read")
    /\ UNCHANGED <<shared, l_head, l_tail, new_node, client, calls, dropped,
                   serial, hist, alone, last, taken, counts>>

\* 42..49: (*tail).next.compare_exchange(next, new_node).unwrap() == next.
\* Ok(null) breaks out of the loop; Err(_) makes unwrap panic, which unwinds
\* the calling thread out of offer (new_node is neither linked nor freed).
OfferCasNext(t) ==
    /\ pc[t] = "offer_cas_next"
    /\ \E ok \in CasNextOutcomes(l_tail[t]) :
         IF ok
         THEN /\ next' = IF AddrOf(l_tail[t]) \in live
                         THEN [next EXCEPT ![AddrOf(l_tail[t])] = new_node[t]]
                         ELSE next
              /\ Goto(t, "offer_swing_tail")
         ELSE /\ next' = next
              /\ Goto(t, "panicked")
    /\ uaf' = uaf \cup Access(l_tail[t], "offer_cas")
    /\ UNCHANGED <<head, tail, data, live, brk, locals, client, calls, dropped,
                   serial, hist, alone, last, taken, counts>>

\* 51: self.tail.compare_exchange(tail, next), result ignored
OfferHelpTail(t) ==
    /\ pc[t] = "offer_help_tail"
    /\ tail' = IF SamePtr(tail, l_tail[t]) THEN l_next[t] ELSE tail
    /\ Goto(t, "offer_reload_tail")
    /\ UNCHANGED <<head, next, data, live, brk, locals, client, calls, dropped,
                   serial, hist, alone, last, taken, uaf, counts>>

\* 52: tail = self.tail.load(), and back to the top of the loop
OfferReloadTail(t) ==
    /\ pc[t] = "offer_reload_tail"
    /\ l_tail' = [l_tail EXCEPT ![t] = tail]
    /\ Goto(t, "offer_load_next")
    /\ UNCHANGED <<shared, l_head, l_next, new_node, client, calls, dropped,
                   serial, hist, alone, last, taken, uaf, counts>>

\* 56: self.tail.compare_exchange(tail, new_node), result ignored; return
OfferSwingTail(t) ==
    /\ pc[t] = "offer_swing_tail"
    /\ tail' = IF SamePtr(tail, l_tail[t]) THEN new_node[t] ELSE tail
    /\ Return(t, [op |-> "offer", val |-> OfferValue(t, calls[t].offer)],
              "offer")
    /\ UNCHANGED <<head, next, data, live, brk, client, calls, dropped,
                   serial, alone, taken, uaf, counts>>

\* ------------------------------------------------------------- take (59..82)
\* TakeLoadHead loading self.tail instead of self.head.
TakeLoadHead_LoadsTail(t) ==
    /\ CanCall(t, "take")
    /\ Called(t, "take")
    /\ l_head' = [l_head EXCEPT ![t] = tail]
    /\ Goto(t, "take_load_next")
    /\ UNCHANGED <<shared, l_tail, l_next, new_node, client, dropped,
                   last, taken, uaf, counts>>

\* 60: let mut head = self.head.load()
TakeLoadHead(t) ==
    /\ CanCall(t, "take")
    /\ Called(t, "take")
    /\ l_head' = [l_head EXCEPT ![t] = head]
    /\ Goto(t, "take_load_next")
    /\ UNCHANGED <<shared, l_tail, l_next, new_node, client, dropped,
                   last, taken, uaf, counts>>

\* TakeLoadNext without the test for an empty queue (lines 66..68 missing).
TakeLoadNext_NoNullCheck(t) ==
    /\ pc[t] = "take_load_next"
    /\ \E v \in ReadNext(l_head[t]) :
         /\ l_next' = [l_next EXCEPT ![t] = v]
         /\ Goto(t, "take_cas")
    /\ uaf' = uaf \cup Access(l_head[t], "take_read")
    /\ UNCHANGED <<shared, l_head, l_tail, new_node, hist, last, client, calls,
                   dropped, serial, alone, taken, counts>>

\* TakeLoadNext testing the next field of the node self.tail points to.
TakeLoadNext_ChecksTail(t) ==
    /\ pc[t] = "take_load_next"
    /\ \E v \in ReadNext(tail) :
         IF v = NULL
         THEN Return(t, [op |-> "take", val |-> NONE],
                     IF ReadNext(head) = {NULL}
                     THEN "take_none" ELSE "take_none_not_empty")
         ELSE /\ l_next' = [l_next EXCEPT ![t] = v]
              /\ Goto(t, "take_cas")
              /\ UNCHANGED <<l_head, l_tail, new_node, hist, last>>
    /\ uaf' = uaf \cup Access(tail, "take_read")
    /\ UNCHANGED <<shared, client, calls, dropped, serial, alone, taken, counts>>

\* 64..68: next = (*head).next.load(); if next.is_null() { return None; }
\* (`last` also tells whether self.head's node had a null next at that time.)
TakeLoadNext(t) ==
    /\ pc[t] = "take_load_next"
    /\ \E v \in ReadNext(l_head[t]) :
         IF v = NULL
         THEN Return(t, [op |-> "take", val |-> NONE],
                     IF ReadNext(head) = {NULL}
                     THEN "take_none" ELSE "take_none_not_empty")
         ELSE /\ l_next' = [l_next EXCEPT ![t] = v]
              /\ Goto(t, "take_cas")
              /\ UNCHANGED <<l_head, l_tail, new_node, hist, last>>
    /\ uaf' = uaf \cup Access(l_head[t], "take_read")
    /\ UNCHANGED <<shared, client, calls, dropped, serial, alone, taken, counts>>

\* TakeCas with an unconditional swap in the place of compare_and_swap.
TakeCas_Swap(t) ==
    /\ pc[t] = "take_cas"
    /\ head' = l_next[t]
    /\ IF SamePtr(head, l_head[t])
       THEN /\ ncas' = ncas + 1
            /\ cas_at' = [cas_at EXCEPT ![t] = ncas + 1]
            /\ Goto(t, "take_free")
       ELSE /\ Goto(t, "take_reload_head")
            /\ UNCHANGED <<ncas, cas_at>>
    /\ UNCHANGED <<tail, next, data, live, brk, locals, client, calls, dropped,
                   serial, hist, alone, last, taken, uaf, nalloc, nfree,
                   dropinfo>>

\* 70..74: if self.head.compare_and_swap(head, next) == head {..}
TakeCas(t) ==
    /\ pc[t] = "take_cas"
    /\ IF SamePtr(head, l_head[t])
       THEN /\ head' = l_next[t]
            /\ ncas' = ncas + 1
            /\ cas_at' = [cas_at EXCEPT ![t] = ncas + 1]
            /\ Goto(t, "take_free")
       ELSE /\ Goto(t, "take_reload_head")
            /\ UNCHANGED <<head, ncas, cas_at>>
    /\ UNCHANGED <<tail, next, data, live, brk, locals, client, calls, dropped,
                   serial, hist, alone, last, taken, uaf, nalloc, nfree,
                   dropinfo>>

\* 75..76: let node = Box::from_raw(head); return Some(node.data);
\* the payload is moved out of the node `head` points to and that node is
\* deallocated.  Every pointer to it that is still around dangles from now on.
\* When the address is not allocated any more (the node was freed before),
\* the payload read is arbitrary and the deallocation is a double free.
TakeFree(t) ==
    /\ pc[t] = "take_free"
    /\ LET p == l_head[t]
           a == AddrOf(p)
       IN /\ \E v \in ReadData(p) :
                /\ hist' = IF serial
                           THEN Append(hist, [op |-> "take", val |-> v])
                           ELSE hist
                /\ taken' = taken \cup {[val |-> v, at |-> cas_at[t]]}
          /\ IF a \in live
             THEN /\ live' = live \ {a}
                  /\ head' = Stale(head, a)
                  /\ tail' = Stale(tail, a)
                  /\ next' = [x \in Addrs |->
                                 IF x = a THEN NULL ELSE Stale(next[x], a)]
                  /\ data' = [data EXCEPT ![a] = Default]
                  /\ l_head' = [StaleAll(l_head, a) EXCEPT ![t] = NULL]
                  /\ l_tail' = [StaleAll(l_tail, a) EXCEPT ![t] = NULL]
                  /\ l_next' = [StaleAll(l_next, a) EXCEPT ![t] = NULL]
                  /\ new_node' = [StaleAll(new_node, a) EXCEPT ![t] = NULL]
                  /\ uaf' = uaf \cup Access(p, "take_free")
             ELSE /\ UNCHANGED <<head, tail, next, data, live>>
                  /\ l_head' = [l_head EXCEPT ![t] = NULL]
                  /\ l_tail' = [l_tail EXCEPT ![t] = NULL]
                  /\ l_next' = [l_next EXCEPT ![t] = NULL]
                  /\ new_node' = [new_node EXCEPT ![t] = NULL]
                  /\ uaf' = uaf \cup {"double_free"}
    /\ nfree' = nfree + 1
    /\ last' = "take_some"
    /\ Goto(t, "idle")
    /\ UNCHANGED <<brk, client, calls, dropped, serial, alone, ncas, cas_at,
                   nalloc, dropinfo>>

\* 79: head = self.head.load(), and back to the top of the loop
TakeReloadHead(t) ==
    /\ pc[t] = "take_reload_head"
    /\ l_head' = [l_head EXCEPT ![t] = head]
    /\ Goto(t, "take_load_next")
    /\ UNCHANGED <<shared, l_tail, l_next, new_node, client, calls, dropped,
                   serial, hist, alone, last, taken, uaf, counts>>

\* ------------------------------------------------------------- is_empty (84..88)
\* IsEmptyLoadHead loading self.tail instead of self.head.
IsEmptyLoadHead_LoadsTail(t) ==
    /\ CanCall(t, "is_empty")
    /\ Called(t, "is_empty")
    /\ l_head' = [l_head EXCEPT ![t] = tail]
    /\ Goto(t, "is_empty_load_next")
    /\ UNCHANGED <<shared, l_tail, l_next, new_node, client, dropped,
                   last, taken, uaf, counts>>

\* 85: let head = self.head.load()
IsEmptyLoadHead(t) ==
    /\ CanCall(t, "is_empty")
    /\ Called(t, "is_empty")
    /\ l_head' = [l_head EXCEPT ![t] = head]
    /\ Goto(t, "is_empty_load_next")
    /\ UNCHANGED <<shared, l_tail, l_next, new_node, client, dropped,
                   last, taken, uaf, counts>>

\* 86..87: let next = (*head).next.load(); next.is_null()
IsEmptyLoadNext(t) ==
    /\ pc[t] = "is_empty_load_next"
    /\ \E v \in ReadNext(l_head[t]) :
         Return(t, [op |-> "is_empty", res |-> (v = NULL)],
                IF v = NULL THEN "is_empty_true" ELSE "is_empty_false")
    /\ uaf' = uaf \cup Access(l_head[t], "is_empty_read")
    /\ UNCHANGED <<shared, client, calls, dropped, serial, alone, taken, counts>>

\* ------------------------------------------------------------- drop (93..99)
\* The addresses of the nodes met from p by following next, as long as they
\* are allocated (at most n of them).
RECURSIVE Chain(_, _)
Chain(p, n) ==
    IF p = NULL \/ n = 0 \/ AddrOf(p) \notin live
    THEN <<>>
    ELSE <<AddrOf(p)>> \o Chain(next[AddrOf(p)], n - 1)

\* 94..98: the loop of drop from `node`, with lv the allocated addresses and
\* n the nodes freed so far.  Box::from_raw(node) on an address that is not
\* allocated any more is a double free: what drop does from there is
\* undefined, the walk is cut and `bad` says so.
RECURSIVE DropLoop(_, _, _, _)
DropLoop(node, lv, n, bad) ==
    IF node = NULL
    THEN [live |-> lv, freed |-> n, bad |-> bad]
    ELSE IF AddrOf(node) \in lv
         THEN DropLoop(next[AddrOf(node)], lv \ {AddrOf(node)}, n + 1,
                       bad \/ node < 0)
         ELSE [live |-> lv, freed |-> n + 1, bad |-> TRUE]

\* No call is in flight: drop takes &mut self.
Quiescent == \A t \in Threads : ~InFlight(t)

Drop ==
    /\ ~dropped
    /\ Quiescent
    /\ dropped' = TRUE
    /\ LET r == DropLoop(head, live, 0, FALSE)
       IN /\ live' = r.live
          /\ dropinfo' = [linked |-> Len(Chain(head, NumAddr)) - 1,
                          freed |-> r.freed, bad |-> r.bad]
    /\ UNCHANGED <<head, tail, next, data, brk, pc, locals, client, calls,
                   serial, hist, alone, last, taken, ncas, cas_at, uaf,
                   nalloc, nfree>>

\* ------------------------------------------------------------- system
Step(t) ==
    \/ OfferAlloc(t)
    \/ OfferLoadTail(t)
    \/ OfferLoadNext(t)
    \/ OfferCasNext(t)
    \/ OfferHelpTail(t)
    \/ OfferReloadTail(t)
    \/ OfferSwingTail(t)
    \/ TakeLoadHead(t)
    \/ TakeLoadNext(t)
    \/ TakeCas(t)
    \/ TakeFree(t)
    \/ TakeReloadHead(t)
    \/ IsEmptyLoadHead(t)
    \/ IsEmptyLoadNext(t)

Next == (\E t \in Threads : Step(t)) \/ Drop

Spec == Init /\ [][Next]_vars

\* A step of a call of thread t that is under way.
Run(t) == InFlight(t) /\ Step(t)

\* Fair scheduling: a thread that is inside a call is not starved.
FairSpec == Spec /\ \A t \in Threads : WF_vars(Run(t))

\* ------------------------------------------------------------- histories
\* The records of h made by calls of op.
Of(h, op) == SelectSeq(h, LAMBDA r : r.op = op)

\* No offer of h comes after a take of h.
OffersBeforeTakes(h) ==
    \A i, j \in 1..Len(h) : (i < j /\ h[i].op = "take") => h[j].op # "offer"

\* Every payload an offer started so far carries.
Offered == UNION {{OfferValue(t, k) : k \in 1..calls[t].offer} : t \in Threads}

\* How many takes have returned payload v.
TimesTaken(v) == Cardinality({r \in taken : r.val = v})

\* A take that starts now returns None.
Drained == ReadNext(head) = {NULL}

\* ------------------------------------------------------------- claims
\* C1 (as claimed): single-threaded FIFO.  On a fresh queue, after
\* offer(v1); ...; offer(vn) with no take in between, the k-th take returns
\* Some(vk) for k <= n and None for k > n.
C1_FifoSingleThread ==
    (serial /\ OffersBeforeTakes(hist)) =>
        LET offers == Of(hist, "offer")
            takes  == Of(hist, "take")
        IN \A k \in 1..Len(takes) :
               takes[k].val = IF k <= Len(offers) THEN offers[k].val ELSE NONE

\* C2 (as claimed, after test_offer_take): on a fresh queue, after
\* offer(v1); ...; offer(vn), n >= 1, with no take in between, the takes
\* return Some(Default), Some(v1), ..., Some(vn), and None from then on.
C2_TestOfferTake ==
    (serial /\ OffersBeforeTakes(hist) /\ Len(Of(hist, "offer")) >= 1) =>
        LET offers == Of(hist, "offer")
            takes  == Of(hist, "take")
        IN \A k \in 1..Len(takes) :
               takes[k].val = IF k = 1 THEN Default
                              ELSE IF k <= Len(offers) + 1
                                   THEN offers[k - 1].val
                                   ELSE NONE

\* C3 (as claimed): no loss and no duplication.  Once no call is in flight
\* and the queue is drained, the takes have returned every offered payload
\* exactly once and nothing else.
C3_NoLossNoDuplication ==
    (Quiescent /\ Drained) =>
        \A v \in Offered \cup {r.val : r \in taken} :
            TimesTaken(v) = IF v \in Offered THEN 1 ELSE 0

\* C4 (as claimed): enqueue always succeeds.  No call of offer panics.
C4_OfferNeverPanics == \A t \in Threads : pc[t] # "panicked"

\* At most one thread ever calls take.
SingleConsumer == Cardinality({t \in Threads : calls[t].take > 0}) <= 1

\* C5 (as claimed): with a single consumer and any number of producers, no
\* thread reads or CASes the next field of a node that take has freed.
C5_SafeWhenSingleConsumer ==
    SingleConsumer =>
        uaf \cap {"offer_read", "offer_cas", "take_read", "is_empty_read"} = {}

\* C6 (as claimed): per-producer order.  When a producer offered a before b
\* and takes returned both, the CAS on head of the take that returned a came
\* before that of the take that returned b.
C6_PerProducerOrder ==
    \A ra, rb \in taken :
        \A t \in Threads :
            \A ka, kb \in 1..calls[t].offer :
                (ka < kb /\ ra.val = OfferValue(t, ka)
                         /\ rb.val = OfferValue(t, kb)) => ra.at < rb.at

\* C10 (as claimed): teardown.  drop, run with no call in flight and N nodes
\* linked after the sentinel, frees N+1 nodes, none of them freed before, and
\* leaves no node allocated by new or offer unfreed or freed twice.
C10_TeardownFreesAll ==
    dropped =>
        /\ dropinfo.freed = dropinfo.linked + 1
        /\ ~dropinfo.bad
        /\ "double_free" \notin uaf
        /\ live = {}
        /\ nalloc = nfree + dropinfo.freed

\* No thread has called offer yet.
NoOfferYet == \A t \in Threads : calls[t].offer = 0

\* C7: empty on construction.  As long as no offer has been called on the queue
\* new() made, every is_empty() returns true, every take() returns None, and
\* head and tail still point at the sentinel, which is allocated and has a
\* null next.
C7_EmptyOnConstruction ==
    NoOfferYet =>
        /\ head = 1 /\ tail = 1 /\ next[1] = NULL
        /\ ~dropped => live = {1}
        /\ taken = {}
        /\ last \in {"nothing", "take_none", "is_empty_true"}
        /\ serial =>
             \A i \in 1..Len(hist) :
                 \/ hist[i].op = "is_empty" /\ hist[i].res = TRUE
                 \/ hist[i].op = "take" /\ hist[i].val = NONE

\* On the queue new() made, a take() has returned and then an is_empty().
C7_Witness ==
    /\ NoOfferYet /\ serial /\ ~dropped
    /\ Len(hist) = 2 /\ hist[1].op = "take" /\ hist[2].op = "is_empty"

\* C8: single item visibility.  In a single-threaded run, an is_empty() called
\* after an offer has returned, with no take between the two, returns false.
C8_SingleItemVisibility ==
    serial =>
        \A i, j \in 1..Len(hist) :
            ( /\ i < j
              /\ hist[i].op = "offer"
              /\ hist[j].op = "is_empty"
              /\ \A m \in (i + 1)..(j - 1) : hist[m].op # "take" )
            => hist[j].res = FALSE

\* A take that returned a payload, then an offer, then an is_empty().
C8_Witness ==
    /\ serial
    /\ \E j \in 3..Len(hist) :
         /\ hist[j].op = "is_empty"
         /\ hist[j - 1].op = "offer"
         /\ hist[j - 2].op = "take" /\ hist[j - 2].val # NONE

C9_WitnessConcurrentOffers ==
    /\ ~serial /\ alone /\ Quiescent /\ ~dropped
    /\ last = "take_none" /\ taken # {}


\* C11: a take that reads a null next from the head node returns None in
\* that very step and leaves head, tail, every next field and the set of
\* allocated nodes as they were; a take whose CAS on head fails leaves them as
\* they were too, and its next step reloads head and reads next again.
C11_TakeWithoutEffect ==
    [][\A t \in Threads :
          /\ pc[t] = "take_load_next" =>
               \/ pc'[t] = "take_load_next"
               \/ /\ pc'[t] = "idle"
                  /\ last' \in {"take_none", "take_none_not_empty"}
                  /\ NULL \in ReadNext(l_head[t])
                  /\ UNCHANGED <<head, tail, next, live>>
               \/ /\ pc'[t] = "take_cas"
                  /\ l_next'[t] # NULL
          /\ (pc[t] = "take_cas" /\ pc'[t] = "take_reload_head") =>
               UNCHANGED <<head, tail, next, live>>
          /\ (pc[t] = "take_cas" /\ ~SamePtr(head, l_head[t])) =>
               pc'[t] \in {"take_cas", "take_reload_head"}
          /\ (pc[t] = "take_reload_head" /\ pc'[t] # "take_reload_head") =>
               /\ pc'[t] = "take_load_next"
               /\ l_head'[t] = head
               /\ UNCHANGED <<head, tail, next, live>>
      ]_vars

\* A take has just returned None while another take, whose CAS on head
\* failed, is about to reload head.
C11_Witness ==
    /\ last \in {"take_none", "take_none_not_empty"}
    /\ \E t \in Threads : pc[t] = "take_reload_head"


\* The addresses of the nodes of the chain from self.head.
ChainNodes == {Chain(head, NumAddr)[i] : i \in 1..Len(Chain(head, NumAddr))}

\* C12 (as claimed): in every reachable state before teardown the node
\* self.tail points to is reachable from self.head by following next, and is
\* therefore not freed: head never advances past tail.
C12_TailReachableFromHead ==
    ~dropped => (Valid(tail) /\ tail \in ChainNodes)


\* C13 (as claimed): each node is detached and freed at most once.  No node
\* is passed to Box::from_raw a second time, and no two takes are between
\* their successful CAS on head and their Box::from_raw for the same node
\* (nor is one of them there for a node that has been freed already).
C13_FreedAtMostOnce ==
    /\ "double_free" \notin uaf
    /\ \A t \in Threads :
         pc[t] = "take_free" =>
           /\ AddrOf(l_head[t]) \in live
           /\ \A u \in Threads \ {t} :
                pc[u] = "take_free" => ~SamePtr(l_head[u], l_head[t])


\* The threads that have called take.
Takers == {t \in Threads : calls[t].take > 0}

\* C14: the read of next on line 64 goes through a pointer to a freed node
\* only when takes of two threads ran against each other: the `head` a take
\* has loaded dangles, or has been read through while dangling, only if a
\* second thread has called take too (the take that freed the node).  That
\* such an interleaving exists is C14_Witness.
C14_UseAfterFreeNeedsTwoTakers ==
    /\ "take_read" \in uaf => Cardinality(Takers) >= 2
    /\ \A t \in Threads :
         (pc[t] = "take_load_next" /\ ~Valid(l_head[t])) =>
             Cardinality(Takers) >= 2

\* Two threads called take on a queue with a linked node; exactly one CAS on
\* head has succeeded and its take has freed the old head; the other take,
\* which had loaded that head before, has read its next field since: the
\* only access to freed memory so far.
C14_Witness ==
    /\ Cardinality(Takers) = 2
    /\ ncas = 1 /\ nfree = 1
    /\ uaf = {"take_read"}
    /\ \E t \in Threads : pc[t] \in {"take_cas", "idle"} /\ cas_at[t] = 0
                          /\ calls[t].take = 1


\* C15 (as claimed): self.tail lags by at most one link.  In every reachable
\* state before teardown the node self.tail points to is the last node (its
\* next is null) or the node just before the last node.
C15_TailLagsAtMostOne ==
    ~dropped =>
        /\ Valid(tail)
        /\ \/ next[tail] = NULL
           \/ Valid(next[tail]) /\ next[next[tail]] = NULL


\* C16 (as claimed): under fair scheduling every call of offer, take and
\* is_empty that was started eventually returns.
C16_EveryCallReturns ==
    \A t \in Threads : (pc[t] # "idle") ~> (pc[t] = "idle")


\* The takes of h that returned Some(_).
Somes(h) == SelectSeq(h, LAMBDA r : r.op = "take" /\ r.val # NONE)

\* The thread that made every offer started so far, if there is just one.
OnlyProducer == {t \in Threads : \A u \in Threads \ {t} : calls[u].offer = 0}

RECURSIVE WellFormedFrom(_, _)
WellFormedFrom(p, seen) ==
    \/ p = NULL
    \/ /\ AddrOf(p) \in live
       /\ AddrOf(p) \notin seen
       /\ WellFormedFrom(next[AddrOf(p)], seen \cup {AddrOf(p)})

\* C18 (as claimed): in every reachable state before teardown self.head is
\* non-null and points to a node that is not freed, and the chain from head
\* is a finite sequence of distinct unfreed nodes ending in a null next.
C18_ChainWellFormed ==
    ~dropped => (head # NULL /\ WellFormedFrom(head, {}))


\* The calls of h from the i-th on are what an atomic sequential FIFO queue
\* holding q answers: offer appends, take removes and returns the oldest
\* payload, or returns None when q is empty.
RECURSIVE FifoAnswers(_, _, _)
FifoAnswers(h, i, q) ==
    IF i > Len(h) THEN TRUE
    ELSE IF h[i].op = "offer" THEN FifoAnswers(h, i + 1, Append(q, h[i].val))
    ELSE IF h[i].op = "take"
         THEN /\ h[i].val = IF q = <<>> THEN NONE ELSE Head(q)
              /\ FifoAnswers(h, i + 1, IF q = <<>> THEN q ELSE Tail(q))
    ELSE FifoAnswers(h, i + 1, q)

\* C19 (as claimed): the queue is linearizable with respect to an atomic
\* sequential FIFO queue.  In an execution where no two calls overlap the
\* linearization order is the order of the calls, so every take returns what
\* the sequential FIFO queue returns at that point.
C19_LinearizableFifo ==
    serial => FifoAnswers(hist, 1, <<>>)


\* C20 (as claimed): whenever no call is in flight and every call that was
\* started has returned, self.tail points to the last node of the chain: the
\* node it points to is allocated, reachable from self.head, and has a null
\* next.
C20_TailLastAtQuiescence ==
    (~dropped /\ \A t \in Threads : pc[t] = "idle") =>
        /\ AddrOf(tail) \in live
        /\ AddrOf(tail) \in ChainNodes
        /\ next[AddrOf(tail)] = NULL

=============================================================================
